---- MODULE Spec2Model ----
(***************************************************************************)
(* Model of the auth backend: the Auth Operations of auth/utils.js, the    *)
(* OAuth Linking Sequence (handleGoogleCallback) and the route handlers of *)
(* auth/app.js.  The identity provider (user directory) and the OAuth      *)
(* provider are external: every answer they give is an input of the step   *)
(* that awaits it.  The model also keeps the directory's own state, so     *)
(* that `faithful' tells whether every answer so far was the one a         *)
(* directory in that state gives.                                          *)
(***************************************************************************)
EXTENDS Integers, Sequences, FiniteSets, TLC

(* ------------------------------ bounds --------------------------------- *)

NumUsers == 1

(* ------------------------- JavaScript values --------------------------- *)

Undefined == "undefined"

\* JavaScript truthiness of a string-or-undefined value: !x is true for
\* undefined and for the empty string.
Truthy(v) == v # Undefined /\ v # ""

\* a || b on string-or-undefined values
OrElse(a, b) == IF Truthy(a) THEN a ELSE b

\* obj.f : a missing property reads as undefined
Get(obj, f) == IF f \in DOMAIN obj THEN obj[f] ELSE Undefined

RECURSIVE Join(_)
Join(chars) == IF chars = <<>> THEN "" ELSE Head(chars) \o Join(Tail(chars))

Min(a, b) == IF a < b THEN a ELSE b

\* String.prototype.substring(from, to) on a string kept as its characters.
substring(chars, from, to) == SubSeq(chars, from + 1, Min(to, Len(chars)))

(* --------------------------- configuration ----------------------------- *)

\* process.env.GOOGLE_CLIENT_SECRET, as its characters (longer than the
\* prefix the Derived Credential takes from it).
GOOGLE_CLIENT_SECRET == <<"G", "O", "C", "S", "P", "X", "-", "s", "e", "c", "r", "e", "t">>

Emails == {"user" \o ToString(i) \o "@example.com" : i \in 1..NumUsers}

\* The OAuth provider's subject id of an account.
SubOf(email) == "sub-" \o email

\* userinfo answers: name and picture may be missing from the profile.
Profiles ==
  { [email |-> e, sub |-> SubOf(e), name |-> n, picture |-> p] :
      e \in Emails, n \in {Undefined, "Ann"}, p \in {Undefined, "pic.png"} }

NoProfile == [email |-> Undefined, sub |-> Undefined, name |-> Undefined, picture |-> Undefined]

\* `Google-${sub}-${process.env.GOOGLE_CLIENT_SECRET.substring(0, 10)}`
DerivedCredential(sub) ==
  "Google-" \o sub \o "-" \o Join(substring(GOOGLE_CLIENT_SECRET, 0, 10))

(* --------------------------- shapes of values -------------------------- *)

\* The uniform result of an operation: { success, message, ...data }.
Result(success, message) == [success |-> success, message |-> message]

\* An awaited outbound call, with the answer it got.
Call(api, params, answer) == [api |-> api, params |-> params, answer |-> answer]

\* What an operation did: the provider calls it made and how it ended.
Did(calls, outcome) == [calls |-> calls, outcome |-> outcome]

\* The parameters of a USER_PASSWORD_AUTH sign-in.
PasswordAuth(username, secret) ==
  [AuthFlow |-> "USER_PASSWORD_AUTH",
   AuthParameters |-> [USERNAME |-> username, PASSWORD |-> secret]]

(* ------------------------------ errors --------------------------------- *)

\* A rejected SDK promise / thrown error. Errors of the SDK carry a code;
\* a TypeError raised by the runtime has no code property.
Error(code, message) == [message |-> message, code |-> code]

TypeError(message) == Error(Undefined, message)

\* An error whose message is empty makes `error.message || '...'` fall back.
ErrorMessages == {"", "provider message"}

(* ----------------------- the OAuth provider ---------------------------- *)

\* axios.post(token endpoint): 2xx carries data.access_token, any other
\* status rejects.
TokenAnswers ==
  {[kind |-> "ok", access_token |-> "google-access-token"]}
    \cup {[kind |-> "error", error |-> Error(Undefined, m)] : m \in ErrorMessages}

\* axios.get(userinfo endpoint)
UserInfoAnswers ==
  {[kind |-> "ok", data |-> p] : p \in Profiles}
    \cup {[kind |-> "error", error |-> Error(Undefined, "Request failed with status code 401")]}

(* ---------------------- the identity provider -------------------------- *)

\* AuthenticationResult of a successful initiateAuth; RefreshToken is not
\* part of every answer.
AuthenticationResults ==
  { [IdToken |-> "id-token", AccessToken |-> "access-token", ExpiresIn |-> "3600"],
    [IdToken |-> "id-token", AccessToken |-> "access-token", ExpiresIn |-> "3600",
     RefreshToken |-> "refresh-token"] }

InitiateAuthErrorCodes ==
  {"UserNotFoundException", "NotAuthorizedException", "UserNotConfirmedException",
   "TooManyRequestsException"}

\* initiateAuth answers: tokens, a challenge (a resolved answer without
\* AuthenticationResult), or a rejection.
InitiateAuthAnswers ==
  {[kind |-> "tokens", AuthenticationResult |-> ar] : ar \in AuthenticationResults}
    \cup {[kind |-> "challenge", ChallengeName |-> "NEW_PASSWORD_REQUIRED"]}
    \cup {[kind |-> "error", error |-> Error(c, "provider message")] : c \in InitiateAuthErrorCodes}

AdminErrorCodes == {"UserNotFoundException", "TooManyRequestsException"}

AdminGetUserAnswers ==
  {[kind |-> "ok"]} \cup {[kind |-> "error", error |-> Error(c, "provider message")] : c \in AdminErrorCodes}

AdminSetUserPasswordAnswers == AdminGetUserAnswers

AdminCreateUserAnswers ==
  {[kind |-> "ok"]}
    \cup {[kind |-> "error", error |-> Error(c, "provider message")] :
            c \in {"UsernameExistsException", "TooManyRequestsException"}}

\* The directory's record of one email.
Absent == [status |-> "ABSENT", password |-> ""]

User(status, password) == [status |-> status, password |-> password]

OtherPassword == "Passw0rd!"

\* What the directory may hold for an email before a request arrives.
InitialUsers(email) ==
  { Absent,
    User("UNCONFIRMED", OtherPassword),
    User("CONFIRMED", OtherPassword),
    User("FORCE_CHANGE_PASSWORD", DerivedCredential(SubOf(email))),
    User("CONFIRMED", DerivedCredential(SubOf(email))) }

\* The answer a directory in state dir gives to USER_PASSWORD_AUTH.
ExpectedInitiateAuth(dir, params) ==
  LET u == IF params.AuthParameters.USERNAME \in DOMAIN dir
           THEN dir[params.AuthParameters.USERNAME] ELSE Absent
  IN  IF u = Absent THEN "UserNotFoundException"
      ELSE IF u.password # params.AuthParameters.PASSWORD THEN "NotAuthorizedException"
      ELSE IF u.status = "UNCONFIRMED" THEN "UserNotConfirmedException"
      ELSE IF u.status = "FORCE_CHANGE_PASSWORD" THEN "challenge"
      ELSE "tokens"

ExpectedAdminGetUser(dir, params) ==
  IF params.Username \in DOMAIN dir /\ dir[params.Username] # Absent
  THEN "ok" ELSE "UserNotFoundException"

ExpectedAdminSetUserPassword(dir, params) == ExpectedAdminGetUser(dir, params)

ExpectedAdminCreateUser(dir, params) ==
  IF params.Username \in DOMAIN dir /\ dir[params.Username] # Absent
  THEN "UsernameExistsException" ELSE "ok"

\* What an answer is, for the comparison with the expected one.
AnswerTag(answer) == IF answer.kind = "error" THEN answer.error.code ELSE answer.kind

\* The directory after adminSetUserPassword{Permanent: true} was accepted.
AfterSetUserPassword(dir, params) ==
  IF params.Username \in DOMAIN dir
  THEN [dir EXCEPT ![params.Username] = User("CONFIRMED", params.Password)]
  ELSE dir

\* The directory after adminCreateUser was accepted.
AfterAdminCreateUser(dir, params) ==
  IF params.Username \in DOMAIN dir
  THEN [dir EXCEPT ![params.Username] = User("FORCE_CHANGE_PASSWORD", params.TemporaryPassword)]
  ELSE dir

(* ------------------------------- state --------------------------------- *)

VARIABLES
  pc,         \* where the OAuth Linking Sequence is suspended ("idle" when none runs)
  op,         \* the invocation being served: its name and its arguments
  log,        \* the outbound calls of this invocation, in order, with their answers
  profile,    \* the External Identity fetched by this run of the sequence
  outcome,    \* how the invoked function of utils.js ended: returned value or thrown error
  response,   \* the HTTP response of the route handler
  directory,  \* the identity provider's user directory
  faithful,   \* every directory answer so far was the one its state gives
  startUser,  \* what the directory held for the profile's email at the first sign-in
  linked      \* emails an earlier run created and signed in while faithful

vars == <<pc, op, log, profile, outcome, response, directory, faithful, startUser, linked>>

NoOutcome == [kind |-> "none"]

NoResponse == [status |-> 0]

NoOp == [name |-> "none"]

Returned(value) == [kind |-> "return", value |-> value]

Thrown(error) == [kind |-> "throw", error |-> error]

(* ------------------ handleGoogleCallback (utils.js) -------------------- *)

\* The sign-in parameters built once per run and used by both attempts.
SignInParams(p) == PasswordAuth(p.email, DerivedCredential(p.sub))

GetUserParams(p) == [Username |-> p.email]

SetPasswordParams(p) ==
  [Username |-> p.email, Password |-> DerivedCredential(p.sub), Permanent |-> TRUE]


\* A create that leaves the email unverified.
CreateUserParams_unverified(p) ==
  [Username |-> p.email,
   TemporaryPassword |-> DerivedCredential(p.sub),
   UserAttributes |-> << [Name |-> "email", Value |-> p.email],
                         [Name |-> "name", Value |-> OrElse(p.name, "")],
                         [Name |-> "picture", Value |-> OrElse(p.picture, "")] >>]

CreateUserParams(p) ==
  [Username |-> p.email,
   TemporaryPassword |-> DerivedCredential(p.sub),
   UserAttributes |-> << [Name |-> "email", Value |-> p.email],
                         [Name |-> "email_verified", Value |-> "true"],
                         [Name |-> "name", Value |-> OrElse(p.name, "")],
                         [Name |-> "picture", Value |-> OrElse(p.picture, "")] >>]


\* An outer catch that throws the error again.
outerCatch_rethrow(error) == Thrown(error)

\* The outer catch: every error becomes a structured failure value.
outerCatch(error) ==
  Returned(Result(FALSE, OrElse(error.message, "An error occurred during Google authentication")))

\* The final return: reads result.AuthenticationResult.*, which throws a
\* TypeError inside the outer try when the answer carries no
\* AuthenticationResult.
successReturn(p, result) ==
  IF "AuthenticationResult" \in DOMAIN result
  THEN Returned([success |-> TRUE,
                 message |-> "Google authentication successful",
                 userInfo |-> [email |-> p.email, name |-> p.name,
                               picture |-> p.picture, googleId |-> p.sub],
                 tokens |-> [idToken |-> Get(result.AuthenticationResult, "IdToken"),
                             accessToken |-> Get(result.AuthenticationResult, "AccessToken"),
                             refreshToken |-> Get(result.AuthenticationResult, "RefreshToken"),
                             expiresIn |-> Get(result.AuthenticationResult, "ExpiresIn")]])
  ELSE outerCatch(TypeError("Cannot read properties of undefined (reading 'IdToken')"))


\* A code exchange whose rejection is not fatal.
AfterExchangeCode_ignoreFailure(answer) == "FetchProfile"

\* Where the run goes after each awaited call; "done" ends it with the
\* value computed from the answer.
AfterExchangeCode(answer) == IF answer.kind = "ok" THEN "FetchProfile" ELSE "done"

AfterFetchProfile(answer) == IF answer.kind = "ok" THEN "TrySignIn" ELSE "done"

\* A first sign-in whose every rejection leads to EnsureUser.
AfterTrySignIn_anyError(answer) == IF answer.kind = "error" THEN "GetUser" ELSE "done"

AfterTrySignIn(answer) ==
  IF answer.kind = "error"
       /\ answer.error.code \in {"UserNotFoundException", "NotAuthorizedException"}
  THEN "GetUser" ELSE "done"

AfterGetUser(answer) ==
  IF answer.kind = "ok" THEN "SetPasswordExisting"
  ELSE IF answer.error.code = "UserNotFoundException" THEN "CreateUser"
  ELSE "done"

AfterSetPasswordExisting(answer) ==
  IF answer.kind = "ok" THEN "RetrySignIn"
  ELSE IF answer.error.code = "UserNotFoundException" THEN "CreateUser"
  ELSE "done"


\* A create that is not followed by the permanent password.
AfterCreateUser_noPassword(answer) == IF answer.kind = "ok" THEN "RetrySignIn" ELSE "done"

AfterCreateUser(answer) == IF answer.kind = "ok" THEN "SetPasswordNew" ELSE "done"

AfterSetPasswordNew(answer) == IF answer.kind = "ok" THEN "RetrySignIn" ELSE "done"


\* A retry that goes back to EnsureUser when it fails the same way.
AfterRetrySignIn_again(answer) ==
  IF answer.kind = "error"
       /\ answer.error.code \in {"UserNotFoundException", "NotAuthorizedException"}
  THEN "GetUser" ELSE "done"

AfterRetrySignIn(answer) == "done"

\* The value a run ends with after the answer of its last call.
EndOf(p, answer) ==
  IF answer.kind = "error" THEN outerCatch(answer.error) ELSE successReturn(p, answer)

Idle == pc \in {"idle", "done"}

Calls(api) == SelectSeq(log, LAMBDA c : c.api = api)

\* The email the invocation that just ended has linked, if it was a run of
\* the sequence that created the user and signed in against a faithful
\* directory.
JustLinked ==
  IF /\ pc = "done" /\ op.name = "handleGoogleCallback" /\ faithful
     /\ outcome.kind = "return" /\ outcome.value.success
     /\ Calls("adminCreateUser") # <<>>
  THEN {profile.email} ELSE {}

\* A caller invokes the exported handleGoogleCallback(code, redirectUri).
CallHandleGoogleCallback ==
  /\ Idle
  /\ \E code \in {"auth-code-1", "auth-code-2"} :
       op' = [name |-> "handleGoogleCallback", args |-> [code |-> code]]
  /\ pc' = "ExchangeCode"
  /\ log' = <<>>
  /\ profile' = NoProfile
  /\ outcome' = NoOutcome
  /\ response' = NoResponse
  /\ startUser' = Absent
  /\ linked' = linked \cup JustLinked
  /\ UNCHANGED <<directory, faithful>>

\* A step of the run: the awaited call api(params) is answered, the run
\* moves to next and, when that ends it, returns.
Step(api, params, answer, next, dir, expected, p) ==
  /\ log' = Append(log, Call(api, params, answer))
  /\ pc' = next
  /\ outcome' = IF next = "done" THEN EndOf(p, answer) ELSE NoOutcome
  /\ directory' = dir
  /\ faithful' = (faithful /\ AnswerTag(answer) = expected)
  /\ UNCHANGED <<op, response, linked>>

ExchangeCode ==
  /\ pc = "ExchangeCode"
  /\ \E answer \in TokenAnswers :
       /\ Step("oauth.token", [code |-> op.args.code, grant_type |-> "authorization_code"],
               answer, AfterExchangeCode(answer), directory, AnswerTag(answer), profile)
       /\ UNCHANGED <<profile, startUser>>

FetchProfile ==
  /\ pc = "FetchProfile"
  /\ \E answer \in UserInfoAnswers :
       /\ profile' = IF answer.kind = "ok" THEN answer.data ELSE NoProfile
       /\ Step("oauth.userinfo", [access_token |-> Get(log[1].answer, "access_token")],
               answer, AfterFetchProfile(answer), directory, AnswerTag(answer), profile')
       /\ UNCHANGED startUser

TrySignIn ==
  /\ pc = "TrySignIn"
  /\ \E answer \in InitiateAuthAnswers :
       /\ Step("initiateAuth", SignInParams(profile), answer, AfterTrySignIn(answer),
               directory, ExpectedInitiateAuth(directory, SignInParams(profile)), profile)
       /\ startUser' = directory[profile.email]
       /\ UNCHANGED profile

GetUser ==
  /\ pc = "GetUser"
  /\ \E answer \in AdminGetUserAnswers :
       /\ Step("adminGetUser", GetUserParams(profile), answer, AfterGetUser(answer),
               directory, ExpectedAdminGetUser(directory, GetUserParams(profile)), profile)
       /\ UNCHANGED <<profile, startUser>>

SetPasswordExisting ==
  /\ pc = "SetPasswordExisting"
  /\ \E answer \in AdminSetUserPasswordAnswers :
       /\ Step("adminSetUserPassword", SetPasswordParams(profile), answer,
               AfterSetPasswordExisting(answer),
               IF answer.kind = "ok"
               THEN AfterSetUserPassword(directory, SetPasswordParams(profile))
               ELSE directory,
               ExpectedAdminSetUserPassword(directory, SetPasswordParams(profile)), profile)
       /\ UNCHANGED <<profile, startUser>>

CreateUser ==
  /\ pc = "CreateUser"
  /\ \E answer \in AdminCreateUserAnswers :
       /\ Step("adminCreateUser", CreateUserParams(profile), answer, AfterCreateUser(answer),
               IF answer.kind = "ok"
               THEN AfterAdminCreateUser(directory, CreateUserParams(profile))
               ELSE directory,
               ExpectedAdminCreateUser(directory, CreateUserParams(profile)), profile)
       /\ UNCHANGED <<profile, startUser>>

SetPasswordNew ==
  /\ pc = "SetPasswordNew"
  /\ \E answer \in AdminSetUserPasswordAnswers :
       /\ Step("adminSetUserPassword", SetPasswordParams(profile), answer,
               AfterSetPasswordNew(answer),
               IF answer.kind = "ok"
               THEN AfterSetUserPassword(directory, SetPasswordParams(profile))
               ELSE directory,
               ExpectedAdminSetUserPassword(directory, SetPasswordParams(profile)), profile)
       /\ UNCHANGED <<profile, startUser>>

RetrySignIn ==
  /\ pc = "RetrySignIn"
  /\ \E answer \in InitiateAuthAnswers :
       /\ Step("initiateAuth", SignInParams(profile), answer, AfterRetrySignIn(answer),
               directory, ExpectedInitiateAuth(directory, SignInParams(profile)), profile)
       /\ UNCHANGED <<profile, startUser>>

(* ------------------- Auth Operations (utils.js) ------------------------ *)

SignUpAnswers ==
  {[kind |-> "ok", UserSub |-> "user-sub-1"]}
    \cup {[kind |-> "error", error |-> Error(c, "provider message")] :
            c \in {"UsernameExistsException", "InvalidParameterType"}}

ConfirmAnswers ==
  {[kind |-> "ok"], [kind |-> "error", error |-> Error("CodeMismatchException", "provider message")]}

ForgotPasswordAnswers ==
  {[kind |-> "ok"]}
    \cup {[kind |-> "error", error |-> Error("UserNotFoundException", m)] : m \in ErrorMessages}

\* A value handed to signUp as its third argument: a string or the
\* attributes object the route builds. An object is always truthy.
JsString(str) == [value |-> str, type |-> "string"]

JsObject(fields) == [value |-> fields, type |-> "object"]

TruthyValue(v) == v.type = "object" \/ (v.type = "string" /\ v.value # "")

signUp(email, password, name, answer) ==
  LET attrs  == << [Name |-> "email", Value |-> JsString(email)] >>
                  \o (IF TruthyValue(name) THEN << [Name |-> "name", Value |-> name] >> ELSE <<>>)
      params == [Username |-> email, Password |-> password, UserAttributes |-> attrs]
  IN  Did(<< Call("signUp", params, answer) >>,
          IF answer.kind = "ok"
          THEN Returned([success |-> TRUE,
                         message |-> "Sign up successful. Please check your email for verification code.",
                         userSub |-> answer.UserSub])
          ELSE Thrown(answer.error))


\* A catch of signIn that throws every error again.
signInCatch_rethrowAll(error) == Thrown(error)

\* The catch of signIn: an unconfirmed user is a value, anything else is
\* thrown again.
signInCatch(error) ==
  IF error.code = "UserNotConfirmedException"
  THEN Returned([success |-> FALSE,
                 message |-> "User is not verified. Please check your email for verification code.",
                 unverified |-> TRUE])
  ELSE Thrown(error)

signIn(email, password, answer) ==
  LET params == PasswordAuth(email, password)
  IN  Did(<< Call("initiateAuth", params, answer) >>,
          IF answer.kind = "error" THEN signInCatch(answer.error)
          ELSE IF "AuthenticationResult" \in DOMAIN answer
          THEN Returned([success |-> TRUE,
                         message |-> "Sign in successful",
                         tokens |-> [idToken |-> Get(answer.AuthenticationResult, "IdToken"),
                                     accessToken |-> Get(answer.AuthenticationResult, "AccessToken"),
                                     refreshToken |-> Get(answer.AuthenticationResult, "RefreshToken"),
                                     expiresIn |-> Get(answer.AuthenticationResult, "ExpiresIn")]])
          ELSE signInCatch(TypeError("Cannot read properties of undefined (reading 'IdToken')")))

verifyEmail(email, code, answer) ==
  Did(<< Call("confirmSignUp", [Username |-> email, ConfirmationCode |-> code], answer) >>,
      IF answer.kind = "ok"
      THEN Returned(Result(TRUE, "Email verification successful. You can now sign in."))
      ELSE Thrown(answer.error))

forgotPassword(email, answer) ==
  Did(<< Call("forgotPassword", [Username |-> email], answer) >>,
      IF answer.kind = "ok"
      THEN Returned(Result(TRUE, "Password reset code has been sent to your email."))
      ELSE Thrown(answer.error))

resetPassword(email, code, newPassword, answer) ==
  Did(<< Call("confirmForgotPassword",
              [Username |-> email, Password |-> newPassword, ConfirmationCode |-> code], answer) >>,
      IF answer.kind = "ok"
      THEN Returned(Result(TRUE,
             "Password has been reset successfully. You can now sign in with your new password."))
      ELSE Thrown(answer.error))


\* A tokens object that passes the provider's refresh token on.
refreshedTokens_withRefreshToken(result) ==
  [idToken |-> Get(result.AuthenticationResult, "IdToken"),
   accessToken |-> Get(result.AuthenticationResult, "AccessToken"),
   refreshToken |-> Get(result.AuthenticationResult, "RefreshToken"),
   expiresIn |-> Get(result.AuthenticationResult, "ExpiresIn")]

\* The tokens object refreshTokens builds from the provider's answer.
refreshedTokens(result) ==
  [idToken |-> Get(result.AuthenticationResult, "IdToken"),
   accessToken |-> Get(result.AuthenticationResult, "AccessToken"),
   expiresIn |-> Get(result.AuthenticationResult, "ExpiresIn")]

refreshTokens(refreshToken, answer) ==
  LET params == [AuthFlow |-> "REFRESH_TOKEN_AUTH",
                 AuthParameters |-> [REFRESH_TOKEN |-> refreshToken]]
  IN  Did(<< Call("initiateAuth", params, answer) >>,
          IF answer.kind = "error" THEN Thrown(answer.error)
          ELSE IF "AuthenticationResult" \in DOMAIN answer
          THEN Returned([success |-> TRUE,
                         message |-> "Token refresh successful",
                         tokens |-> refreshedTokens(answer)])
          ELSE Thrown(TypeError("Cannot read properties of undefined (reading 'IdToken')")))

\* module.exports of utils.js
UtilsExports ==
  {"signUp", "signIn", "verifyEmail", "forgotPassword", "resetPassword", "refreshTokens",
   "getGoogleAuthUrl", "handleGoogleCallback"}

(* ----------------------- route handlers (app.js) ----------------------- *)

\* The names app.js destructures from require('./utils'): a name utils.js
\* does not export is bound to undefined.
Imported(name) == IF name \in UtilsExports THEN name ELSE Undefined

\* Calling an exported Auth Operation by its name in utils.js.
Invoke(fn, args, answer) ==
  CASE fn = "signUp" -> signUp(args[1], args[2], args[3], answer)
    [] fn = "signIn" -> signIn(args[1], args[2], answer)
    [] fn = "verifyEmail" -> verifyEmail(args[1], args[2], answer)
    [] fn = "forgotPassword" -> forgotPassword(args[1], answer)
    [] fn = "resetPassword" -> resetPassword(args[1], args[2], args[3], answer)
    [] fn = "refreshTokens" -> refreshTokens(args[1], answer)

\* A route calls the binding it imported; calling undefined throws a
\* TypeError before any provider call is made.
CallImported(name, args, answer) ==
  IF Imported(name) = Undefined
  THEN Did(<<>>, Thrown(TypeError(name \o " is not a function")))
  ELSE Invoke(Imported(name), args, answer)

Json(status, body) == [status |-> status, body |-> body]

\* { ...base, ...result }
Spread(base, result) ==
  [f \in DOMAIN base \cup DOMAIN result |-> IF f \in DOMAIN result THEN result[f] ELSE base[f]]

\* The catch of every route: status 500 and a structured error body.
routeCatch(error, fallback) ==
  Json(500, Result(FALSE, OrElse(error.message, fallback)))

\* What a route did: the operation's calls and outcome, and the response.
Served(did, resp) == [calls |-> did.calls, outcome |-> did.outcome, response |-> resp]

signupRoute(body, answer) ==
  LET attributes == IF Truthy(body.name) THEN JsObject([name |-> body.name]) ELSE JsObject(<<>>)
      did == CallImported("signUp", <<body.email, body.password, attributes>>, answer)
  IN  Served(did,
        IF did.outcome.kind = "return"
        THEN Json(200, Spread(Result(TRUE,
               "User registration successful. Please check your email for verification code."),
                              did.outcome.value))
        ELSE routeCatch(did.outcome.error, "An error occurred during sign up"))

signinRoute(body, answer) ==
  LET did == CallImported("signIn", <<body.email, body.password>>, answer)
  IN  Served(did,
        IF did.outcome.kind = "return" THEN Json(200, did.outcome.value)
        ELSE routeCatch(did.outcome.error, "An error occurred during sign in"))

verifyRoute(body, answer) ==
  LET did == CallImported("confirmSignUp", <<body.email, body.code>>, answer)
  IN  Served(did,
        IF did.outcome.kind = "return"
        THEN Json(200, Spread(Result(TRUE, "Email verification successful"),
                              did.outcome.value))
        ELSE routeCatch(did.outcome.error, "An error occurred during email verification"))

forgotPasswordRoute(body, answer) ==
  LET did == CallImported("forgotPassword", <<body.email>>, answer)
  IN  Served(did,
        IF did.outcome.kind = "return" THEN Json(200, did.outcome.value)
        ELSE routeCatch(did.outcome.error, "An error occurred during password reset request"))

resetPasswordRoute(body, answer) ==
  LET did == CallImported("confirmForgotPassword",
                          <<body.email, body.newPassword, body.code>>, answer)
  IN  Served(did,
        IF did.outcome.kind = "return"
        THEN Json(200, Spread(Result(TRUE, "Password has been reset successfully"),
                              did.outcome.value))
        ELSE routeCatch(did.outcome.error, "An error occurred during password reset"))

refreshTokensRoute(body, answer) ==
  LET did == CallImported("refreshTokens", <<body.refreshToken>>, answer)
  IN  Served(did,
        IF did.outcome.kind = "return" THEN Json(200, did.outcome.value)
        ELSE routeCatch(did.outcome.error, "An error occurred during token refresh"))


\* A callback route without the check of the code.
googleCallbackRoute_unchecked(query, answer) ==
  LET did == CallImported("processGoogleOAuth", <<query.code>>, answer)
  IN  Served(did,
        IF did.outcome.kind = "return"
        THEN Json(200, [success |-> TRUE, result |-> did.outcome.value])
        ELSE routeCatch(did.outcome.error, "An error occurred during Google authentication"))

\* GET /google/callback: the code check, then the call of the imported
\* processGoogleOAuth binding.
googleCallbackRoute(query, answer) ==
  IF ~Truthy(query.code)
  THEN Served(Did(<<>>, NoOutcome),
              Json(400, Result(FALSE, "Authorization code is required")))
  ELSE LET did == CallImported("processGoogleOAuth", <<query.code>>, answer)
       IN  Served(did,
             IF did.outcome.kind = "return"
             THEN Json(200, [success |-> TRUE, result |-> did.outcome.value])
             ELSE routeCatch(did.outcome.error, "An error occurred during Google authentication"))

\* The directory after the calls of a route: an accepted signUp registers
\* an unconfirmed user.
AfterRoute(dir, calls) ==
  IF calls # <<>> /\ calls[1].api = "signUp" /\ calls[1].answer.kind = "ok"
       /\ calls[1].params.Username \in DOMAIN dir
       /\ dir[calls[1].params.Username] = Absent
  THEN [dir EXCEPT ![calls[1].params.Username] = User("UNCONFIRMED", calls[1].params.Password)]
  ELSE dir

\* An accepted signUp for an email the directory does not take is not an
\* answer of a directory in that state.
RouteFaithful(dir, calls) ==
  ~ ( /\ calls # <<>> /\ calls[1].api = "signUp" /\ calls[1].answer.kind = "ok"
      /\ ~ ( /\ calls[1].params.Username \in DOMAIN dir
             /\ dir[calls[1].params.Username] = Absent ) )

\* One HTTP request served from arrival to response.
Serve(name, args, served) ==
  /\ Idle
  /\ pc' = "idle"
  /\ op' = [name |-> name, args |-> args]
  /\ log' = served.calls
  /\ outcome' = served.outcome
  /\ response' = served.response
  /\ profile' = NoProfile
  /\ startUser' = Absent
  /\ directory' = AfterRoute(directory, served.calls)
  /\ faithful' = (faithful /\ RouteFaithful(directory, served.calls))
  /\ linked' = linked \cup JustLinked

BodyEmails == Emails \cup {Undefined}

PostSignup ==
  \E body \in [email : BodyEmails, name : {"Ann", Undefined}, password : {OtherPassword, Undefined}],
     answer \in SignUpAnswers :
    Serve("POST /signup", body, signupRoute(body, answer))

PostSignin ==
  \E body \in [email : BodyEmails, password : {OtherPassword, Undefined}],
     answer \in InitiateAuthAnswers :
    Serve("POST /signin", body, signinRoute(body, answer))

PostVerify ==
  \E body \in [email : BodyEmails, code : {"123456", Undefined}], answer \in ConfirmAnswers :
    Serve("POST /verify", body, verifyRoute(body, answer))

PostForgotPassword ==
  \E body \in [email : BodyEmails], answer \in ForgotPasswordAnswers :
    Serve("POST /forgot-password", body, forgotPasswordRoute(body, answer))

PostResetPassword ==
  \E body \in [email : BodyEmails, code : {"123456", Undefined},
               newPassword : {"N3wPassw0rd!", Undefined}],
     answer \in ConfirmAnswers :
    Serve("POST /reset-password", body, resetPasswordRoute(body, answer))

PostRefreshTokens ==
  \E body \in [refreshToken : {"refresh-token", Undefined}], answer \in InitiateAuthAnswers :
    Serve("POST /refresh-tokens", body, refreshTokensRoute(body, answer))

GetGoogleCallback ==
  \E query \in [code : {"auth-code-1", "", Undefined}, state : {"state-1", Undefined}] :
    Serve("GET /google/callback", query, googleCallbackRoute(query, [kind |-> "ok"]))

(* --------------------------- specification ----------------------------- *)

Init ==
  /\ pc = "idle"
  /\ op = NoOp
  /\ log = <<>>
  /\ profile = NoProfile
  /\ outcome = NoOutcome
  /\ response = NoResponse
  /\ directory \in {d \in [Emails -> UNION {InitialUsers(e) : e \in Emails}] :
                      \A e \in Emails : d[e] \in InitialUsers(e)}
  /\ faithful = TRUE
  /\ startUser = Absent
  /\ linked = {}

Next ==
  \/ CallHandleGoogleCallback
  \/ ExchangeCode
  \/ FetchProfile
  \/ TrySignIn
  \/ GetUser
  \/ SetPasswordExisting
  \/ CreateUser
  \/ SetPasswordNew
  \/ RetrySignIn
  \/ PostSignup
  \/ PostSignin
  \/ PostVerify
  \/ PostForgotPassword
  \/ PostResetPassword
  \/ PostRefreshTokens
  \/ GetGoogleCallback

Spec == Init /\ [][Next]_vars

(* ------------------------------ claims --------------------------------- *)

InRun == op.name = "handleGoogleCallback"

Ended == pc = "done"

Failed == outcome.kind = "return" /\ outcome.value.success = FALSE

Succeeded == outcome.kind = "return" /\ outcome.value.success = TRUE

IsError(call, codes) == call.answer.kind = "error" /\ call.answer.error.code \in codes

RecoverableCodes == {"UserNotFoundException", "NotAuthorizedException"}

LastCall == log[Len(log)]

\* C1: a run of the OAuth Linking Sequence issues initiateAuth at most
\* twice; a second attempt is made only after the first failed with
\* UserNotFound or InvalidCredentials, and when the second does not yield
\* tokens either the run has ended with the failure result.
C1_SignInAtMostTwice ==
  InRun =>
    LET signIns == Calls("initiateAuth")
    IN  /\ Len(signIns) <= 2
        /\ Len(signIns) = 2 =>
             /\ IsError(signIns[1], RecoverableCodes)
             /\ signIns[2].answer.kind # "tokens" => (Ended /\ Failed /\ LastCall = signIns[2])

C1_Witness ==
  /\ InRun /\ Ended /\ Failed
  /\ Len(Calls("initiateAuth")) = 2
  /\ Calls("initiateAuth")[2].answer.kind = "error"

\* C2: against a faithful directory, a run for a profile whose email was
\* absent issues exactly one adminCreateUser, then exactly one sign-in that
\* yields tokens, and ends in success; a later run for an email that an
\* earlier run created and signed in issues no adminCreateUser.
C2_CreateOnceThenSignIn ==
  /\ (InRun /\ Ended /\ faithful /\ profile # NoProfile /\ startUser = Absent) =>
       /\ Len(Calls("adminCreateUser")) = 1
       /\ Len(SelectSeq(log, LAMBDA c : c.api = "initiateAuth" /\ c.answer.kind = "tokens")) = 1
       /\ LastCall.api = "initiateAuth" /\ LastCall.answer.kind = "tokens"
       /\ Succeeded
  /\ (InRun /\ faithful /\ profile.email \in linked) =>
       /\ Calls("adminCreateUser") = <<>>
       /\ Ended => Succeeded

C2_Witness ==
  /\ InRun /\ Ended /\ faithful /\ profile.email \in linked
  /\ Calls("adminCreateUser") = <<>> /\ Succeeded

\* EnsureUser, as far as the code and the original statement agree: it
\* starts with adminGetUser; an absent user is created with a verified
\* email and the attributes email, name, picture; an accepted create is
\* followed by the permanent Derived Credential; a lookup error other than
\* user-not-found ends the run in failure with no further call.
EnsureUserCommon ==
  /\ Len(log) >= 4 =>
       /\ IsError(log[3], RecoverableCodes)
       /\ log[4] = Call("adminGetUser", [Username |-> profile.email], log[4].answer)
  /\ (Len(log) >= 5 /\ log[4].answer.kind = "ok") =>
       /\ log[5].api = "adminSetUserPassword"
       /\ log[5].params = [Username |-> profile.email,
                           Password |-> DerivedCredential(profile.sub), Permanent |-> TRUE]
  /\ (Len(log) >= 5 /\ IsError(log[4], {"UserNotFoundException"})) => log[5].api = "adminCreateUser"
  /\ \A i \in 1..Len(log) :
       log[i].api = "adminCreateUser" =>
         /\ log[i].params.Username = profile.email
         /\ { <<a.Name, a.Value>> : a \in { log[i].params.UserAttributes[k] :
                                             k \in 1..Len(log[i].params.UserAttributes) } }
              = { <<"email", profile.email>>, <<"email_verified", "true">>,
                  <<"name", IF profile.name = Undefined THEN "" ELSE profile.name>>,
                  <<"picture", IF profile.picture = Undefined THEN "" ELSE profile.picture>> }
         /\ (i < Len(log) => log[i].answer.kind = "ok")
         /\ (i < Len(log) =>
               /\ log[i + 1].api = "adminSetUserPassword"
               /\ log[i + 1].params = [Username |-> profile.email,
                                       Password |-> DerivedCredential(profile.sub),
                                       Permanent |-> TRUE])
  /\ (Len(log) >= 4 /\ log[4].answer.kind = "error"
        /\ ~IsError(log[4], {"UserNotFoundException"})) =>
       (Len(log) = 4 /\ Ended /\ Failed)

\* C3 as stated: EnsureUser checks existence first; when the user is
\* present it only resets the password and never calls create; when absent
\* it creates the user (verified email; email, name, picture) and then sets
\* the permanent password; any other lookup error ends the run in failure.
C3_Original ==
  InRun =>
    /\ EnsureUserCommon
    /\ (Len(log) >= 4 /\ log[4].answer.kind = "ok") => Calls("adminCreateUser") = <<>>

\* C3 amended: as C3, except that with the user present create is called
\* in one case only, when the password reset that follows the existence
\* check is itself answered user-not-found.
C3_EnsureUser ==
  InRun =>
    /\ EnsureUserCommon
    /\ (Len(log) >= 4 /\ log[4].answer.kind = "ok" /\ Calls("adminCreateUser") # <<>>) =>
         /\ IsError(log[5], {"UserNotFoundException"})
         /\ log[6].api = "adminCreateUser"
         /\ Len(Calls("adminCreateUser")) = 1

C3_Witness ==
  /\ InRun /\ Ended /\ Succeeded
  /\ Len(log) = 8
  /\ log[4].api = "adminGetUser" /\ log[4].answer.kind = "ok"
  /\ log[5].api = "adminSetUserPassword" /\ IsError(log[5], {"UserNotFoundException"})
  /\ log[6].api = "adminCreateUser"
  /\ log[7].api = "adminSetUserPassword"

\* C4: a run of handleGoogleCallback never throws: whenever it has ended it
\* has returned, {success: false, message} with a non-empty message after a
\* failure at any step, {success: true, userInfo, tokens} after a sign-in
\* that yielded tokens.
C4_StructuredResult ==
  InRun =>
    /\ outcome.kind # "throw"
    /\ Ended =>
         /\ outcome.kind = "return"
         /\ Failed =>
              /\ DOMAIN outcome.value = {"success", "message"}
              /\ Truthy(outcome.value.message)
         /\ Succeeded => {"userInfo", "tokens"} \subseteq DOMAIN outcome.value
         /\ LastCall.answer.kind = "error" => Failed
         /\ LastCall.answer.kind = "tokens" <=> Succeeded

C4_Witness ==
  /\ InRun /\ Ended /\ Failed
  /\ LastCall.api = "adminCreateUser"

\* C5: the calls of a run are in sequence: the code exchange is the first
\* call and is made once, the profile fetch is the second and follows an
\* accepted exchange, the first directory call is the third and follows an
\* accepted profile fetch; a rejected exchange or profile fetch is the last
\* call of its run.
C5_Sequential ==
  InRun =>
    /\ \A i \in 1..Len(log) :
         /\ log[i].api = "oauth.token" <=> i = 1
         /\ log[i].api = "oauth.userinfo" <=> i = 2
         /\ i >= 3 => log[1].answer.kind = "ok" /\ log[2].answer.kind = "ok"
    /\ Len(log) >= 2 => log[1].answer.kind = "ok"
    /\ Len(log) >= 3 => log[3].api = "initiateAuth"
    /\ \A i \in {1, 2} :
         (Len(log) >= i /\ log[i].answer.kind = "error") => (Len(log) = i /\ Ended /\ Failed)

C5_Witness ==
  /\ InRun /\ Ended /\ Failed
  /\ Len(log) = 1 /\ log[1].api = "oauth.token" /\ log[1].answer.kind = "error"

\* The fields each endpoint requires (the External Interfaces table).
RequiredFields(route) ==
  CASE route = "POST /signup" -> {"email", "password"}
    [] route = "POST /signin" -> {"email", "password"}
    [] route = "POST /verify" -> {"email", "code"}
    [] route = "POST /forgot-password" -> {"email"}
    [] route = "POST /reset-password" -> {"email", "code", "newPassword"}
    [] route = "POST /refresh-tokens" -> {"refreshToken"}
    [] route = "GET /google/callback" -> {"code"}

IsRoute == op.name \notin {"none", "handleGoogleCallback"}

StructuredError(body) == DOMAIN body = {"success", "message"} /\ body.success = FALSE

\* C6: a GET /google/callback without a code (none, or an empty one) is
\* answered 400 with {success: false, message}, and no call to the OAuth
\* provider or the identity provider was made for it.
C6_CallbackWithoutCode ==
  (op.name = "GET /google/callback" /\ ~Truthy(op.args.code)) =>
    /\ response.status = 400
    /\ StructuredError(response.body)
    /\ log = <<>>

C6_Witness ==
  /\ op.name = "GET /google/callback" /\ op.args.code = Undefined
  /\ response.status = 400

\* C7: a request to any endpoint that misses a required field is answered
\* with a 400-class structured error and reaches no identity-provider call.
C7_MissingFieldIs400 ==
  (IsRoute /\ \E f \in RequiredFields(op.name) : op.args[f] = Undefined) =>
    /\ response.status \in 400..499
    /\ StructuredError(response.body)
    /\ log = <<>>

\* C8: POST /verify with email and code reaches confirmSignUp, POST
\* /reset-password with email, code and newPassword reaches
\* confirmForgotPassword, each answering {success: true, message} when the
\* provider accepts; GET /google/callback with a code runs the OAuth
\* Linking Sequence, whose first call is the code exchange.
C8_RoutesReachOperations ==
  /\ (op.name = "POST /verify" /\ \A f \in RequiredFields(op.name) : op.args[f] # Undefined) =>
       /\ Calls("confirmSignUp") # <<>>
       /\ log[1].answer.kind = "ok" =>
            (response.status = 200 /\ response.body.success = TRUE
               /\ "message" \in DOMAIN response.body)
  /\ (op.name = "POST /reset-password"
        /\ \A f \in RequiredFields(op.name) : op.args[f] # Undefined) =>
       /\ Calls("confirmForgotPassword") # <<>>
       /\ log[1].answer.kind = "ok" =>
            (response.status = 200 /\ response.body.success = TRUE
               /\ "message" \in DOMAIN response.body)
  /\ (op.name = "GET /google/callback" /\ Truthy(op.args.code)) => Calls("oauth.token") # <<>>

\* C9: when the identity provider answers a sign-in with NotConfirmed,
\* signIn returns {success: false, message, unverified: true} and POST
\* /signin answers 200 with that body; every other rejection is thrown
\* again by signIn and answered 500.
C9_UnverifiedIsAValue ==
  op.name = "POST /signin" =>
    /\ Len(log) = 1 /\ log[1].api = "initiateAuth"
    /\ IsError(log[1], {"UserNotConfirmedException"}) =>
         /\ outcome.kind = "return"
         /\ DOMAIN outcome.value = {"success", "message", "unverified"}
         /\ outcome.value.success = FALSE /\ outcome.value.unverified = TRUE
         /\ response = Json(200, outcome.value)
    /\ (log[1].answer.kind = "error" /\ ~IsError(log[1], {"UserNotConfirmedException"})) =>
         /\ outcome = Thrown(log[1].answer.error)
         /\ response.status = 500 /\ StructuredError(response.body)

C9_Witness ==
  /\ op.name = "POST /signin"
  /\ IsError(log[1], {"UserNotConfirmedException"})
  /\ response.status = 200 /\ response.body.unverified = TRUE

\* C10: whatever the refresh token and the provider's answer, a result
\* returned by refreshTokens has a tokens object with exactly idToken,
\* accessToken and expiresIn, and no refreshToken anywhere, also in the
\* body POST /refresh-tokens answers with.
C10_NoRefreshToken ==
  (op.name = "POST /refresh-tokens" /\ outcome.kind = "return") =>
    /\ DOMAIN outcome.value.tokens = {"idToken", "accessToken", "expiresIn"}
    /\ "refreshToken" \notin DOMAIN outcome.value
    /\ response = Json(200, outcome.value)

C10_Witness ==
  /\ op.name = "POST /refresh-tokens" /\ outcome.kind = "return"
  /\ "RefreshToken" \in DOMAIN log[1].answer.AuthenticationResult
  /\ response.status = 200

MutatingApis == {"adminCreateUser", "adminSetUserPassword"}

\* C11: a run mutates the directory (adminCreateUser, adminSetUserPassword)
\* only after its first sign-in was rejected with UserNotFound or
\* InvalidCredentials and adminGetUser has been issued; until then the
\* directory holds for the profile's email what it held at the first
\* sign-in. When the first sign-in is answered in any other way it is the
\* last call of the run, which ends with that answer's outcome: success
\* with the tokens of the answer, or the failure carrying the rejection's
\* message.
C11_NoMutationWithoutEnsureUser ==
  InRun =>
    /\ \A i \in 1..Len(log) :
         log[i].api \in MutatingApis =>
           /\ i >= 5
           /\ IsError(log[3], RecoverableCodes)
           /\ log[4].api = "adminGetUser"
    /\ (Len(log) >= 3 /\ \A i \in 1..Len(log) : log[i].api \notin MutatingApis) =>
         directory[profile.email] = startUser
    /\ (Len(log) >= 3 /\ ~IsError(log[3], RecoverableCodes)) =>
         /\ Len(log) = 3 /\ Ended
         /\ log[3].answer.kind = "tokens" =>
              /\ Succeeded
              /\ outcome.value.tokens.idToken = log[3].answer.AuthenticationResult.IdToken
              /\ outcome.value.tokens.accessToken = log[3].answer.AuthenticationResult.AccessToken
         /\ log[3].answer.kind = "error" =>
              /\ Failed
              /\ outcome.value.message = log[3].answer.error.message
         /\ log[3].answer.kind = "challenge" => Failed

C11_Witness ==
  /\ InRun /\ Ended /\ Failed
  /\ Len(log) = 3
  /\ IsError(log[3], {"UserNotConfirmedException"})
  /\ directory[profile.email] = startUser

====
